---- MODULE Spec2Model ----
(***************************************************************************)
(* Momentum injectors of WarpX (Source/Initialization/InjectorMomentum.H). *)
(*                                                                         *)
(* amrex::Real is modelled as a fixed-point number: the integer n stands   *)
(* for n/Unit.  Results are rounded to the nearest representable value,    *)
(* magnitudes above MaxReal overflow to an infinity, and the non-finite    *)
(* values of IEEE arithmetic (+inf, -inf, NaN) are kept as three reserved  *)
(* integers, so that a division by zero, a square root of a negative       *)
(* number or a logarithm of zero yields what the build yields.             *)
(***************************************************************************)
EXTENDS Integers, Sequences, FiniteSets, TLC

Unit == 100
MaxReal == 30000

PInf == MaxReal + 1
NInf == 0 - PInf
NaN  == MaxReal + 2

pi == 314

\* Bound of the model: the per-call counter of engine draws saturates here.
MaxDraws == 4

----------------------------------------------------------------------------
(* Arithmetic of amrex::Real *)

IsNaN(a)    == a = NaN
IsInf(a)    == a = PInf \/ a = NInf
IsFinite(a) == a >= 0 - MaxReal /\ a <= MaxReal

Abs(n) == IF n < 0 THEN 0 - n ELSE n
Sgn(n) == IF n < 0 THEN 0 - 1 ELSE IF n > 0 THEN 1 ELSE 0

\* n/d rounded to the nearest integer, halves away from zero (d > 0)
Round(n, d) == Sgn(n) * ((2 * Abs(n) + d) \div (2 * d))

\* overflow of a finite result
Fin(v) == IF v > MaxReal THEN PInf ELSE IF v < 0 - MaxReal THEN NInf ELSE v

RNeg(a) == IF IsNaN(a) THEN NaN ELSE 0 - a

RAdd(a, b) ==
    IF IsNaN(a) \/ IsNaN(b) THEN NaN
    ELSE IF IsInf(a) THEN (IF IsInf(b) /\ a # b THEN NaN ELSE a)
    ELSE IF IsInf(b) THEN b
    ELSE Fin(a + b)

RSub(a, b) == RAdd(a, RNeg(b))

RMul(a, b) ==
    IF IsNaN(a) \/ IsNaN(b) THEN NaN
    ELSE IF IsInf(a) \/ IsInf(b)
         THEN (IF a = 0 \/ b = 0 THEN NaN
               ELSE IF Sgn(a) * Sgn(b) > 0 THEN PInf ELSE NInf)
    ELSE Fin(Round(a * b, Unit))

\* a zero divisor is taken as +0
RDiv(a, b) ==
    IF IsNaN(a) \/ IsNaN(b) THEN NaN
    ELSE IF IsInf(a) THEN (IF IsInf(b) THEN NaN
                           ELSE IF Sgn(a) * (IF b < 0 THEN 0 - 1 ELSE 1) > 0
                                THEN PInf ELSE NInf)
    ELSE IF IsInf(b) THEN 0
    ELSE IF b = 0 THEN (IF a = 0 THEN NaN ELSE IF a > 0 THEN PInf ELSE NInf)
    ELSE Fin(Sgn(b) * Round(a * Unit, Abs(b)))

\* comparisons: every comparison with a NaN is false
RLt(a, b) == ~IsNaN(a) /\ ~IsNaN(b) /\ a < b
RLe(a, b) == ~IsNaN(a) /\ ~IsNaN(b) /\ a <= b
RGt(a, b) == ~IsNaN(a) /\ ~IsNaN(b) /\ a > b
RGe(a, b) == ~IsNaN(a) /\ ~IsNaN(b) /\ a >= b
REq(a, b) == ~IsNaN(a) /\ ~IsNaN(b) /\ a = b

RECURSIVE ISqrtBS(_, _, _)
\* largest r in lo..hi with r*r <= n
ISqrtBS(n, lo, hi) ==
    IF lo >= hi THEN lo
    ELSE LET mid == (lo + hi + 1) \div 2
         IN  IF mid * mid <= n THEN ISqrtBS(n, mid, hi)
             ELSE ISqrtBS(n, lo, mid - 1)

\* integer square root, rounded to nearest
ISqrt(n) ==
    LET r == ISqrtBS(n, 0, 2000)
    IN  IF n - r * r <= r THEN r ELSE r + 1

\* std::sqrt
RSqrt(a) ==
    IF IsNaN(a) THEN NaN
    ELSE IF a < 0 THEN NaN
    ELSE IF a = PInf THEN PInf
    ELSE ISqrt(a * Unit)

RECURSIVE LnNorm(_, _)
\* <<m, k>> with m in [Unit, 2*Unit) and x ~ m * 2^k   (x > 0)
LnNorm(m, k) ==
    IF m < Unit THEN LnNorm(2 * m, k - 1)
    ELSE IF m >= 2 * Unit THEN LnNorm(Round(m, 2), k + 1)
    ELSE <<m, k>>

\* natural logarithm of a finite x > 0: k*ln(2) + 2*atanh((m-1)/(m+1))
Ln(x) ==
    LET mk == LnNorm(x, 0)
        m  == mk[1]
        k  == mk[2]
        y  == Round((m - Unit) * Unit, m + Unit)
    IN  Round(k * 6931, 100) + 2 * y + Round(2 * y * y * y, 3 * Unit * Unit)

\* std::log
RLog(a) ==
    IF IsNaN(a) THEN NaN
    ELSE IF a < 0 THEN NaN
    ELSE IF a = 0 THEN NInf
    ELSE IF a = PInf THEN PInf
    ELSE Ln(a)

\* e^x of a finite x: 2^k * e^r with r in [0, ln 2)
Exp(x) ==
    LET k  == (x * 100) \div 6931
        r  == x - Round(k * 6931, 100)
        er == Unit + r + Round(r * r, 2 * Unit) + Round(r * r * r, 6 * Unit * Unit)
    IN  IF k > 9 THEN PInf
        ELSE IF k < 0 - 9 THEN 0
        ELSE IF k >= 0 THEN Fin(er * 2^k)
        ELSE Round(er, 2^(0 - k))

\* std::exp
RExp(a) ==
    IF IsNaN(a) THEN NaN
    ELSE IF a = PInf THEN PInf
    ELSE IF a = NInf THEN 0
    ELSE Exp(a)

\* sine of a finite angle (Bhaskara's rational approximation on [0, pi])
Sin(a) ==
    LET t == a % (2 * pi)
        h == IF t <= pi THEN t ELSE t - pi
        p == h * (pi - h)
        v == Round(16 * p * Unit, 5 * pi * pi - 4 * p)
    IN  IF t <= pi THEN v ELSE 0 - v

\* std::sin, std::cos
RSin(a) == IF IsFinite(a) THEN Sin(a) ELSE NaN
RCos(a) == IF IsFinite(a) THEN Sin(a + pi \div 2) ELSE NaN

----------------------------------------------------------------------------
(* Inputs of the model *)

\* amrex::XDim3 and u[3]: axis i (0, 1, 2) is component i+1
At(v, i)       == v[i + 1]
Set(v, i, val) == [v EXCEPT ![i + 1] = val]
Zero3          == <<0, 0, 0>>

\* values amrex::Random(engine) delivers, in [0, 1)
UniformDraws == {0, Unit \div 4, (3 * Unit) \div 4}
\* standard normal variates behind amrex::RandomNormal
NormalDraws  == {0 - 3 * Unit, 0, Unit}

Positions == {Zero3, <<3 * Unit, 0, 4 * Unit>>}

MomVals    == {0 - Unit, 0, Unit}
MomVecs    == {<<a, b, c>> : a \in MomVals, b \in MomVals, c \in MomVals}
SpreadVecs == {<<s, s, s>> : s \in {0, Unit, 2 * Unit}}
RangeVals  == {Unit, 2 * Unit, 3 * Unit}
RangeVecs  == {<<a, b, c>> : a \in RangeVals, b \in RangeVals, c \in RangeVals}
FluxAxes   == 0 .. 3
FluxDirs   == {0 - 1, 1}
RadialVals == {0 - Unit, 0, Unit \div 2, 2 * Unit}

\* Field evaluators: value c0 + c1*x at position (x, y, z)
TempEvals ==
    {[c0 |-> t, c1 |-> 0] : t \in {0, Unit \div 20, Unit \div 10}}
    \cup {[c0 |-> Unit, c1 |-> 0 - Unit]}
VelEvals ==
    {[c0 |-> b, c1 |-> 0, dir |-> d] :
        b \in {0 - Unit, 0 - (3 * Unit) \div 5, (3 * Unit) \div 5, Unit},
        d \in 0 .. 2}
    \cup {[c0 |-> 0, c1 |-> Unit \div 2, dir |-> d] : d \in 0 .. 2}
    \cup {[c0 |-> (4 * Unit) \div 5, c1 |-> 0 - Unit \div 2, dir |-> d] : d \in 0 .. 2}
ParserExprs == {[c0 |-> 0, c1 |-> Unit], [c0 |-> Unit, c1 |-> 0]}

\* GetTemperature::operator(), GetVelocity::operator(), ParserExecutor<3>
Evaluate(e, pos) == RAdd(e.c0, RMul(e.c1, pos[1]))
direction(b)     == b.dir

\* amrex::RandomNormal(mean, stddev, engine) for the standard variate z
RandomNormal(mean, stddev, z) == RAdd(mean, RMul(stddev, z))

----------------------------------------------------------------------------
(* The eight distributions: construction *)

InjectorMomentumConstant(a_u) ==
    [arm |-> "constant", m_u |-> a_u]

InjectorMomentumGaussian(a_u_m, a_u_th) ==
    [arm |-> "gaussian", m_u_m |-> a_u_m, m_u_th |-> a_u_th]

\* variant: the check of axis 2 is missing
raise_error_noZ(a_u_m, a_flux_normal_axis) ==
    \/ a_flux_normal_axis = 0 /\ RLt(a_u_m[1], 0)
    \/ a_flux_normal_axis = 1 /\ RLt(a_u_m[2], 0)

\* the constructor's check: negative central momentum along the flux axis
raise_error(a_u_m, a_flux_normal_axis) ==
    \/ a_flux_normal_axis = 0 /\ RLt(a_u_m[1], 0)
    \/ a_flux_normal_axis = 1 /\ RLt(a_u_m[2], 0)
    \/ a_flux_normal_axis = 2 /\ RLt(a_u_m[3], 0)

InjectorMomentumGaussianFlux(a_u_m, a_u_th, a_flux_normal_axis, a_flux_direction) ==
    [arm |-> "gaussianflux", m_u_m |-> a_u_m, m_u_th |-> a_u_th,
     m_flux_normal_axis |-> a_flux_normal_axis,
     m_flux_direction |-> a_flux_direction]

\* variant: the midpoint is computed as half the width
InjectorMomentumUniform_halfWidth(a_u_min, a_u_max) ==
    [arm |-> "uniform", m_u_min |-> a_u_min, m_u_max |-> a_u_max,
     m_Du  |-> [i \in 1 .. 3 |-> RSub(a_u_max[i], a_u_min[i])],
     m_u_h |-> [i \in 1 .. 3 |-> RMul(Unit \div 2, RSub(a_u_max[i], a_u_min[i]))]]

InjectorMomentumUniform(a_u_min, a_u_max) ==
    [arm |-> "uniform", m_u_min |-> a_u_min, m_u_max |-> a_u_max,
     m_Du  |-> [i \in 1 .. 3 |-> RSub(a_u_max[i], a_u_min[i])],
     m_u_h |-> [i \in 1 .. 3 |-> RMul(Unit \div 2, RAdd(a_u_max[i], a_u_min[i]))]]

InjectorMomentumBoltzmann(t, b) ==
    [arm |-> "boltzmann", velocity |-> b, temperature |-> t]

InjectorMomentumJuttner(t, b) ==
    [arm |-> "juttner", velocity |-> b, temperature |-> t]

InjectorMomentumRadialExpansion(a_u_over_r) ==
    [arm |-> "radial_expansion", u_over_r |-> a_u_over_r]

InjectorMomentumParser(a_ux_parser, a_uy_parser, a_uz_parser) ==
    [arm |-> "parser", m_ux_parser |-> a_ux_parser,
     m_uy_parser |-> a_uy_parser, m_uz_parser |-> a_uz_parser]

NoObject == [arm |-> "none"]

----------------------------------------------------------------------------
(* One call of getMomentum / getBulkMomentum: its locals and its outcome *)

\* op    "sample" (getMomentum), "mean" (getBulkMomentum), "kernel"
\* pc    position in the code; arm: the union member the switch selected
\* u, gamma, x1, flip: locals of the Boltzmann / Juttner sampler
\*       (u keeps the local-frame sample once the call has returned)
\* u_m, u_th, ku: arguments and local u of generateGaussianFluxDist
\* nd    engine draws consumed so far; out, ret: outcome and returned XDim3
\* rnd   the value the engine delivered last to the rejection loop in progress:
\*       <<"uniform", r>> (amrex::Random), <<"normal", z>> (amrex::RandomNormal)
Idle ==
    [op |-> "none", pc |-> "idle", arm |-> "none", pos |-> Zero3,
     theta |-> 0, beta |-> 0, u |-> Zero3, gamma |-> 0, x1 |-> 0,
     flip |-> FALSE, u_m |-> 0, u_th |-> 0, ku |-> 0,
     nd |-> 0, out |-> "none", ret |-> Zero3, rnd |-> <<>>]

Enter(op, arm, pos) == [Idle EXCEPT !.op = op, !.pc = "entry", !.arm = arm, !.pos = pos]

\* n more engine draws
Draw(nd, n) == IF nd + n > MaxDraws THEN MaxDraws ELSE nd + n

\* return r after n more draws
Returned(c, r, n) ==
    [c EXCEPT !.pc = "done", !.out = "returned", !.ret = r, !.nd = Draw(c.nd, n),
              !.rnd = <<>>]

\* amrex::Abort: the run ends, nothing is returned
Abort(c) == [c EXCEPT !.pc = "aborted", !.out = "aborted"]

Triples(S) == {<<a, b, c>> : a \in S, b \in S, c \in S}

----------------------------------------------------------------------------
(* Closed-form distributions *)

Constant_getMomentum(o, c)     == {Returned(c, o.m_u, 0)}
Constant_getBulkMomentum(o, c) == {Returned(c, o.m_u, 0)}

Gaussian_getMomentum(o, c) ==
    {Returned(c, [i \in 1 .. 3 |-> RandomNormal(o.m_u_m[i], o.m_u_th[i], z[i])], 3) :
        z \in Triples(NormalDraws)}
Gaussian_getBulkMomentum(o, c) == {Returned(c, o.m_u_m, 0)}

Uniform_getMomentum(o, c) ==
    {Returned(c, [i \in 1 .. 3 |-> RAdd(o.m_u_min[i], RMul(r[i], o.m_Du[i]))], 3) :
        r \in Triples(UniformDraws)}
Uniform_getBulkMomentum(o, c) == {Returned(c, o.m_u_h, 0)}

\* variant: every component is scaled from x
RadialExpansion_getMomentum_xOnly(o, c) ==
    {Returned(c, [i \in 1 .. 3 |-> RMul(c.pos[1], o.u_over_r)], 0)}

RadialExpansion_getMomentum(o, c) ==
    {Returned(c, [i \in 1 .. 3 |-> RMul(c.pos[i], o.u_over_r)], 0)}
RadialExpansion_getBulkMomentum(o, c) ==
    {Returned(c, [i \in 1 .. 3 |-> RMul(c.pos[i], o.u_over_r)], 0)}

Parser_getMomentum(o, c) ==
    {Returned(c, <<Evaluate(o.m_ux_parser, c.pos), Evaluate(o.m_uy_parser, c.pos),
                   Evaluate(o.m_uz_parser, c.pos)>>, 0)}
Parser_getBulkMomentum(o, c) ==
    {Returned(c, <<Evaluate(o.m_ux_parser, c.pos), Evaluate(o.m_uy_parser, c.pos),
                   Evaluate(o.m_uz_parser, c.pos)>>, 0)}

----------------------------------------------------------------------------
(* generateGaussianFluxDist and the GaussianFlux distribution *)

\* variant: the threshold itself takes the small-drift branch
generateGaussianFluxDist_inclusive(c) ==
    IF REq(c.u_th, 0)
    THEN [c EXCEPT !.pc = "flux_ret", !.ku = c.u_m]
    ELSE IF RLe(c.u_m, RMul((6 * Unit) \div 10, c.u_th))
    THEN [c EXCEPT !.pc = "flux_small", !.ku = 0]
    ELSE [c EXCEPT !.pc = "flux_large", !.ku = 0 - Unit]

\* variant: the trivial case tests the central value instead of the spread
generateGaussianFluxDist_testsMean(c) ==
    IF REq(c.u_m, 0)
    THEN [c EXCEPT !.pc = "flux_ret", !.ku = c.u_m]
    ELSE IF RLt(c.u_m, RMul((6 * Unit) \div 10, c.u_th))
    THEN [c EXCEPT !.pc = "flux_small", !.ku = 0]
    ELSE [c EXCEPT !.pc = "flux_large", !.ku = 0 - Unit]

\* the choice of the regime; pc "flux_ret" is the kernel's return of ku
generateGaussianFluxDist(c) ==
    IF REq(c.u_th, 0)
    THEN [c EXCEPT !.pc = "flux_ret", !.ku = c.u_m]
    ELSE IF RLt(c.u_m, RMul((6 * Unit) \div 10, c.u_th))
    THEN [c EXCEPT !.pc = "flux_small", !.ku = 0]
    ELSE [c EXCEPT !.pc = "flux_large", !.ku = 0 - Unit]

\* one iteration of the first rejection loop, with the draws r1, r2
FluxSmallIteration(c, r1, r2) ==
    LET approx_u_th == RDiv(c.u_th, RSqrt(RSub(Unit, RDiv(c.u_m, c.u_th))))
        reject_prefactor ==
            RDiv(RDiv(c.u_m, c.u_th), RMul(RMul(2 * Unit, c.u_th), c.u_th))
        xrand == RSub(Unit, r1)
        u == RMul(approx_u_th, RSqrt(RMul(2 * Unit, RLog(RDiv(Unit, xrand)))))
        d == RSub(u, c.u_th)
        accept == RLt(r2, RExp(RMul(RMul(RNeg(reject_prefactor), d), d)))
    IN  [c EXCEPT !.ku = u, !.nd = Draw(c.nd, 2), !.rnd = <<"uniform", r2>>,
                  !.pc = IF accept THEN "flux_ret" ELSE "flux_small"]

\* one iteration of the inner loop of the second branch (while (u < 0))
FluxLargeRedraw(c, z) ==
    LET approx_u_m == RAdd(c.u_m, RDiv(RMul(c.u_th, c.u_th), c.u_m))
    IN  [c EXCEPT !.ku = RandomNormal(approx_u_m, c.u_th, z), !.nd = Draw(c.nd, 1),
                  !.rnd = <<"normal", z>>]

\* the rejection test of the second branch, with the draw r
FluxLargeTest(c, r) ==
    LET inv_um == RDiv(Unit, c.u_m)
        q      == RMul(c.ku, inv_um)
        accept == RLt(r, RMul(q, RExp(RSub(Unit, q))))
    IN  IF accept
        THEN [c EXCEPT !.pc = "flux_ret", !.nd = Draw(c.nd, 1), !.rnd = <<"uniform", r>>]
        ELSE [c EXCEPT !.ku = 0 - Unit, !.nd = Draw(c.nd, 1), !.rnd = <<"uniform", r>>]

\* getMomentum up to the call of the kernel
GaussianFlux_getMomentum(o, c) ==
    LET a == o.m_flux_normal_axis
    IN  {[c EXCEPT !.pc = "flux_entry",
                   !.u_m  = IF a \in 0 .. 2 THEN At(o.m_u_m, a) ELSE 0,
                   !.u_th = IF a \in 0 .. 2 THEN At(o.m_u_th, a) ELSE 0]}

\* variant: the sign of flux_direction is not applied
GaussianFlux_finish_unsigned(o, c) ==
    LET off == {i \in 0 .. 2 : i # o.m_flux_normal_axis}
    IN  {Returned(c, [i \in 1 .. 3 |->
                        IF o.m_flux_normal_axis = i - 1 THEN c.ku
                        ELSE RandomNormal(o.m_u_m[i], o.m_u_th[i], z[i])],
                  Cardinality(off)) : z \in Triples(NormalDraws)}

\* getMomentum after the kernel has returned c.ku
GaussianFlux_finish(o, c) ==
    LET u == IF o.m_flux_direction < 0 THEN RNeg(c.ku) ELSE c.ku
        off == {i \in 0 .. 2 : i # o.m_flux_normal_axis}
    IN  {Returned(c, [i \in 1 .. 3 |->
                        IF o.m_flux_normal_axis = i - 1 THEN u
                        ELSE RandomNormal(o.m_u_m[i], o.m_u_th[i], z[i])],
                  Cardinality(off)) : z \in Triples(NormalDraws)}

GaussianFlux_getBulkMomentum(o, c) == {Returned(c, o.m_u_m, 0)}

----------------------------------------------------------------------------
(* Relativistic distributions: Boltzmann and Juttner *)

\* variant: a zero temperature aborts too
NegativeTemperature_orZero(theta) == RLe(theta, 0)

\* variant: the minimum 0.1 itself aborts
TemperatureTooLow_orEqual(theta) == RLe(theta, Unit \div 10)

\* Boltzmann: "if (theta < 0._rt)" aborts
NegativeTemperature(theta) == RLt(theta, 0)

\* Juttner: "if (theta < 0.1_rt)" aborts
TemperatureTooLow(theta) == RLt(theta, Unit \div 10)

\* both: "if (beta <= -1._rt || beta >= 1._rt)" aborts
BetaOutOfRange(beta) == RLe(beta, 0 - Unit) \/ RGe(beta, Unit)

\* the flipping method: -beta*u[dir]/gamma > x
FlipCondition(beta, udir, gamma, x) ==
    RGt(RDiv(RMul(RNeg(beta), udir), gamma), x)

\* the Lorentz transform: 1/sqrt(1-beta*beta)*(u[dir]+gamma*beta)
LorentzTransform(beta, udir, gamma) ==
    RMul(RDiv(Unit, RSqrt(RSub(Unit, RMul(beta, beta)))),
         RAdd(udir, RMul(gamma, beta)))

\* variant: the boosted value is stored on the x axis
FlipAndBoost_onX(c, dir, u, gamma, r, n) ==
    LET flip == FlipCondition(c.beta, At(u, dir), gamma, r)
        ud   == IF flip THEN RNeg(At(u, dir)) ELSE At(u, dir)
    IN  Returned([c EXCEPT !.u = u, !.gamma = gamma, !.flip = flip, !.x1 = r],
                 Set(u, 0, LorentzTransform(c.beta, ud, gamma)), n)

\* flip and boost of the local-frame sample u, with the threshold draw r
FlipAndBoost(c, dir, u, gamma, r, n) ==
    LET flip == FlipCondition(c.beta, At(u, dir), gamma, r)
        ud   == IF flip THEN RNeg(At(u, dir)) ELSE At(u, dir)
    IN  Returned([c EXCEPT !.u = u, !.gamma = gamma, !.flip = flip, !.x1 = r],
                 Set(u, dir, LorentzTransform(c.beta, ud, gamma)), n)

Boltzmann_getMomentum(o, c0) ==
    LET theta == Evaluate(o.temperature, c0.pos)
        beta  == Evaluate(o.velocity, c0.pos)
        c     == [c0 EXCEPT !.theta = theta, !.beta = beta]
        vave  == RSqrt(theta)
        dir   == direction(o.velocity)
        U(z)  == Set(Set(Set(Zero3, dir, RandomNormal(0, vave, z[1])),
                         (dir + 1) % 3, RandomNormal(0, vave, z[2])),
                     (dir + 2) % 3, RandomNormal(0, vave, z[3]))
        G(u)  == RSqrt(RAdd(RAdd(RAdd(Unit, RMul(u[1], u[1])), RMul(u[2], u[2])),
                            RMul(u[3], u[3])))
    IN  IF NegativeTemperature(theta) THEN {Abort([c0 EXCEPT !.theta = theta])}
        ELSE IF BetaOutOfRange(beta) THEN {Abort(c)}
        ELSE {FlipAndBoost(c, dir, U(z), G(U(z)), r, 4) :
                 z \in Triples(NormalDraws), r \in UniformDraws}

\* variant: gamma without the square root
Boltzmann_getBulkMomentum_noSqrt(o, c0) ==
    LET beta  == Evaluate(o.velocity, c0.pos)
        dir   == direction(o.velocity)
        gamma == RDiv(Unit, RSub(Unit, RMul(beta, beta)))
    IN  {Returned([c0 EXCEPT !.beta = beta, !.gamma = gamma],
                  Set(Zero3, dir, RMul(gamma, beta)), 0)}

\* gamma*beta along direction(), zero elsewhere; beta is not checked
Boltzmann_getBulkMomentum(o, c0) ==
    LET beta  == Evaluate(o.velocity, c0.pos)
        dir   == direction(o.velocity)
        gamma == RDiv(Unit, RSqrt(RSub(Unit, RMul(beta, beta))))
    IN  {Returned([c0 EXCEPT !.beta = beta, !.gamma = gamma],
                  Set(Zero3, dir, RMul(gamma, beta)), 0)}

Juttner_getBulkMomentum(o, c0) ==
    LET beta  == Evaluate(o.velocity, c0.pos)
        dir   == direction(o.velocity)
        gamma == RDiv(Unit, RSqrt(RSub(Unit, RMul(beta, beta))))
    IN  {Returned([c0 EXCEPT !.beta = beta, !.gamma = gamma],
                  Set(Zero3, dir, RMul(gamma, beta)), 0)}

\* variant: x1 starts below u[dir]-gamma
Juttner_getMomentum_lowThreshold(o, c0) ==
    LET theta == Evaluate(o.temperature, c0.pos)
        beta  == Evaluate(o.velocity, c0.pos)
    IN  IF TemperatureTooLow(theta) THEN {Abort([c0 EXCEPT !.theta = theta])}
        ELSE IF BetaOutOfRange(beta)
        THEN {Abort([c0 EXCEPT !.theta = theta, !.beta = beta])}
        ELSE {[c0 EXCEPT !.theta = theta, !.beta = beta, !.pc = "juttner_loop",
                         !.x1 = 0 - Unit, !.gamma = 0, !.u = Zero3]}

\* getMomentum up to the rejection loop
Juttner_getMomentum(o, c0) ==
    LET theta == Evaluate(o.temperature, c0.pos)
        beta  == Evaluate(o.velocity, c0.pos)
    IN  IF TemperatureTooLow(theta) THEN {Abort([c0 EXCEPT !.theta = theta])}
        ELSE IF BetaOutOfRange(beta)
        THEN {Abort([c0 EXCEPT !.theta = theta, !.beta = beta])}
        ELSE {[c0 EXCEPT !.theta = theta, !.beta = beta, !.pc = "juttner_loop",
                         !.x1 = 0, !.gamma = 0, !.u = Zero3]}

\* variant: the loop goes on while u[dir]-gamma is not positive
JuttnerLoopCondition_notPositive(o, c) ==
    ~RGt(RSub(At(c.u, direction(o.velocity)), c.gamma), 0)

\* the loop condition u[dir]-gamma <= x1
JuttnerLoopCondition(o, c) ==
    RLe(RSub(At(c.u, direction(o.velocity)), c.gamma), c.x1)

\* one iteration of the rejection loop, with the four draws r
JuttnerIteration(o, c, r) ==
    LET dir  == direction(o.velocity)
        udir == RMul(RNeg(c.theta), RLog(RMul(RMul(r[1], r[2]), r[3])))
    IN  [c EXCEPT !.u = Set(c.u, dir, udir),
                  !.gamma = RSqrt(RAdd(Unit, RMul(udir, udir))),
                  !.x1 = RMul(c.theta, RLog(r[4])),
                  !.nd = Draw(c.nd, 4), !.rnd = <<"uniform", r[4]>>]

\* getMomentum after the loop: random direction, flip, boost; draws x1, x2, r
Juttner_finish(o, c, x1, x2, r) ==
    LET dir  == direction(o.velocity)
        udir == At(c.u, dir)
        s    == RSqrt(RMul(x1, RSub(Unit, x1)))
        ang  == RMul(RMul(2 * Unit, pi), x2)
        u    == Set(Set(Set(c.u, (dir + 1) % 3, RMul(RMul(RMul(2 * Unit, udir), s), RSin(ang))),
                        (dir + 2) % 3, RMul(RMul(RMul(2 * Unit, udir), s), RCos(ang))),
                    dir, RMul(udir, RSub(RMul(2 * Unit, x1), Unit)))
    IN  FlipAndBoost(c, dir, u, c.gamma, r, 3)

----------------------------------------------------------------------------
(* InjectorMomentum: the tagged union and its two switches *)

Types == {"constant", "gaussian", "gaussianflux", "uniform", "boltzmann",
          "juttner", "radial_expansion", "parser"}

\* variant: case Type::boltzmann calls object.juttner
getMomentumSwitch_swapped(t) ==
    CASE t = "parser"           -> "parser"
      [] t = "gaussian"         -> "gaussian"
      [] t = "gaussianflux"     -> "gaussianflux"
      [] t = "uniform"          -> "uniform"
      [] t = "boltzmann"        -> "juttner"
      [] t = "juttner"          -> "juttner"
      [] t = "constant"         -> "constant"
      [] t = "radial_expansion" -> "radial_expansion"
      [] OTHER                  -> "unknown"

\* switch (type) of getMomentum: the union member whose getMomentum runs
getMomentumSwitch(t) ==
    CASE t = "parser"           -> "parser"
      [] t = "gaussian"         -> "gaussian"
      [] t = "gaussianflux"     -> "gaussianflux"
      [] t = "uniform"          -> "uniform"
      [] t = "boltzmann"        -> "boltzmann"
      [] t = "juttner"          -> "juttner"
      [] t = "constant"         -> "constant"
      [] t = "radial_expansion" -> "radial_expansion"
      [] OTHER                  -> "unknown"

\* switch (type) of getBulkMomentum
getBulkMomentumSwitch(t) ==
    CASE t = "parser"           -> "parser"
      [] t = "gaussian"         -> "gaussian"
      [] t = "gaussianflux"     -> "gaussianflux"
      [] t = "uniform"          -> "uniform"
      [] t = "boltzmann"        -> "boltzmann"
      [] t = "juttner"          -> "juttner"
      [] t = "constant"         -> "constant"
      [] t = "radial_expansion" -> "radial_expansion"
      [] OTHER                  -> "unknown"

\* InjectorMomentum::getMomentum at pos: the states the call can be in next
InjectorMomentum_getMomentum(t, o, pos) ==
    LET arm == getMomentumSwitch(t)
        c   == Enter("sample", arm, pos)
    IN  CASE arm = "parser"           -> Parser_getMomentum(o, c)
          [] arm = "gaussian"         -> Gaussian_getMomentum(o, c)
          [] arm = "gaussianflux"     -> GaussianFlux_getMomentum(o, c)
          [] arm = "uniform"          -> Uniform_getMomentum(o, c)
          [] arm = "boltzmann"        -> Boltzmann_getMomentum(o, c)
          [] arm = "juttner"          -> Juttner_getMomentum(o, c)
          [] arm = "constant"         -> Constant_getMomentum(o, c)
          [] arm = "radial_expansion" -> RadialExpansion_getMomentum(o, c)
          [] OTHER                    -> {Abort(c)}

\* InjectorMomentum::getBulkMomentum at pos
InjectorMomentum_getBulkMomentum(t, o, pos) ==
    LET arm == getBulkMomentumSwitch(t)
        c   == Enter("mean", arm, pos)
    IN  CASE arm = "parser"           -> Parser_getBulkMomentum(o, c)
          [] arm = "gaussian"         -> Gaussian_getBulkMomentum(o, c)
          [] arm = "gaussianflux"     -> GaussianFlux_getBulkMomentum(o, c)
          [] arm = "uniform"          -> Uniform_getBulkMomentum(o, c)
          [] arm = "boltzmann"        -> Boltzmann_getBulkMomentum(o, c)
          [] arm = "juttner"          -> Juttner_getBulkMomentum(o, c)
          [] arm = "constant"         -> Constant_getBulkMomentum(o, c)
          [] arm = "radial_expansion" -> RadialExpansion_getBulkMomentum(o, c)
          [] OTHER                    -> {Abort(c)}

----------------------------------------------------------------------------
(* State *)

VARIABLES
    type,     \* InjectorMomentum::type, "none" before construction
    object,   \* InjectorMomentum::object, the constructed union member
    run,      \* "config", "ready", "aborted" (fatal error), "kernel"
    call,     \* the call in flight
    other     \* a second call in flight on the same sampler, with its own engine

vars == <<type, object, run, call, other>>

Init ==
    /\ type = "none"
    /\ object = NoObject
    /\ run = "config"
    /\ call = Idle
    /\ other = Idle

\* the member initialisers of an InjectorMomentum constructor: type, then object
Construct(t, o) ==
    /\ type' = t
    /\ object' = o
    /\ run' = "ready"
    /\ UNCHANGED <<call, other>>

NewConstant ==
    /\ run = "config"
    /\ \E a \in MomVecs : Construct("constant", InjectorMomentumConstant(a))

NewParser ==
    /\ run = "config"
    /\ \E fx \in ParserExprs, fy \in ParserExprs, fz \in ParserExprs :
        Construct("parser", InjectorMomentumParser(fx, fy, fz))

NewGaussian ==
    /\ run = "config"
    /\ \E m \in MomVecs, th \in SpreadVecs :
        Construct("gaussian", InjectorMomentumGaussian(m, th))

\* the members are initialised, then
\* WARPX_ALWAYS_ASSERT_WITH_MESSAGE(raise_error==false, ...) ends the run
NewGaussianFlux ==
    /\ run = "config"
    /\ \E m \in MomVecs, th \in SpreadVecs, axis \in FluxAxes, fd \in FluxDirs :
        IF raise_error(m, axis)
        THEN /\ type' = "gaussianflux"
             /\ object' = InjectorMomentumGaussianFlux(m, th, axis, fd)
             /\ run' = "aborted"
             /\ UNCHANGED <<call, other>>
        ELSE Construct("gaussianflux", InjectorMomentumGaussianFlux(m, th, axis, fd))

NewUniform ==
    /\ run = "config"
    /\ \E lo \in RangeVecs, hi \in RangeVecs :
        /\ \A i \in 1 .. 3 : lo[i] <= hi[i]
        /\ Construct("uniform", InjectorMomentumUniform(lo, hi))

NewBoltzmann ==
    /\ run = "config"
    /\ \E t \in TempEvals, b \in VelEvals :
        Construct("boltzmann", InjectorMomentumBoltzmann(t, b))

NewJuttner ==
    /\ run = "config"
    /\ \E t \in TempEvals, b \in VelEvals :
        Construct("juttner", InjectorMomentumJuttner(t, b))

NewRadialExpansion ==
    /\ run = "config"
    /\ \E k \in RadialVals :
        Construct("radial_expansion", InjectorMomentumRadialExpansion(k))

\* a step of the call that leaves the selector alone; an abort ends the run
CallStep(c) ==
    /\ call' = c
    /\ run' = IF c.out = "aborted" THEN "aborted" ELSE run
    /\ UNCHANGED <<type, object, other>>

getMomentum ==
    /\ run = "ready" /\ call.pc = "idle"
    /\ \E pos \in Positions :
         \E c \in InjectorMomentum_getMomentum(type, object, pos) : CallStep(c)

getBulkMomentum ==
    /\ run = "ready" /\ call.pc = "idle"
    /\ \E pos \in Positions :
         \E c \in InjectorMomentum_getBulkMomentum(type, object, pos) : CallStep(c)

KernelEntry ==
    /\ call.pc = "flux_entry"
    /\ CallStep(generateGaussianFluxDist(call))

FluxSmall ==
    /\ call.pc = "flux_small"
    /\ \E r1 \in UniformDraws, r2 \in UniformDraws :
         CallStep(FluxSmallIteration(call, r1, r2))

FluxRedraw ==
    /\ call.pc = "flux_large" /\ RLt(call.ku, 0)
    /\ \E z \in NormalDraws : CallStep(FluxLargeRedraw(call, z))

FluxTest ==
    /\ call.pc = "flux_large" /\ ~RLt(call.ku, 0)
    /\ \E r \in UniformDraws : CallStep(FluxLargeTest(call, r))

GaussianFluxReturn ==
    /\ call.pc = "flux_ret" /\ call.op = "sample"
    /\ \E c \in GaussianFlux_finish(object, call) : CallStep(c)

JuttnerLoop ==
    /\ call.pc = "juttner_loop" /\ JuttnerLoopCondition(object, call)
    /\ \E r \in UniformDraws \X UniformDraws \X UniformDraws \X UniformDraws :
         CallStep(JuttnerIteration(object, call, r))

JuttnerReturn ==
    /\ call.pc = "juttner_loop" /\ ~JuttnerLoopCondition(object, call)
    /\ \E x1 \in UniformDraws, x2 \in UniformDraws, r \in UniformDraws :
         CallStep(Juttner_finish(object, call, x1, x2, r))

\* the caller takes the returned momentum; the next call may start
Return ==
    /\ call.pc = "done"
    /\ call' = Idle
    /\ UNCHANGED <<type, object, run, other>>

Next ==
    \/ NewConstant \/ NewParser \/ NewGaussian \/ NewGaussianFlux
    \/ NewUniform \/ NewBoltzmann \/ NewJuttner \/ NewRadialExpansion
    \/ getMomentum \/ getBulkMomentum
    \/ KernelEntry \/ FluxSmall \/ FluxRedraw \/ FluxTest \/ GaussianFluxReturn
    \/ JuttnerLoop \/ JuttnerReturn
    \/ Return

Spec == Init /\ [][Next]_vars

----------------------------------------------------------------------------------------------------------------------------------------
(* The same program with a call that runs on and an engine that eventually
   delivers each of its draw values to a loop that keeps asking *)

\* a call in flight is executed to its end: no step of it waits for anything.
\* The return of GaussianFlux's getMomentum and the exit of the Juttner loop
\* are enabled in every state at their position and every such step leaves
\* it, so weak fairness of the step is "again and again not at the position".
CallProgress ==
    /\ WF_vars(KernelEntry)
    /\ []<>~(call.pc = "flux_ret" /\ call.op = "sample")
    /\ []<>~(call.pc = "juttner_loop" /\ ~JuttnerLoopCondition(object, call))

\* the loop of the small-drift branch (its acceptance draw), the inner
\* redraw-while-negative loop and the Juttner loop (its threshold draw) draw at
\* every iteration: while the call is in one of them, each value comes again
DeliveredToSmallDrift ==
    \A v \in UniformDraws :
        []<>(call.pc # "flux_small" \/ call.rnd = <<"uniform", v>>)

DeliveredToRedraw ==
    \A z \in NormalDraws :
        []<>(~(call.pc = "flux_large" /\ RLt(call.ku, 0)) \/ call.rnd = <<"normal", z>>)

DeliveredToJuttner ==
    \A v \in UniformDraws :
        []<>(\/ ~(call.pc = "juttner_loop" /\ JuttnerLoopCondition(object, call))
             \/ call.rnd = <<"uniform", v>>)

\* the rejection test of the drift-dominated branch draws once per round of
\* the outer loop: if it is reached again and again, each value comes again
DeliveredToTest ==
    \A v \in UniformDraws :
        []<>(call.pc = "flux_large" /\ ~RLt(call.ku, 0)) =>
            []<>(call.pc # "flux_large" \/ call.rnd = <<"uniform", v>>)

EngineFairness ==
    /\ DeliveredToSmallDrift
    /\ DeliveredToRedraw
    /\ DeliveredToJuttner
    /\ DeliveredToTest

FairSpec == Spec /\ CallProgress /\ EngineFairness

----------------------------------------------------------------------------
(* Two calls in flight on one sampler: getMomentum and getBulkMomentum are
   const member functions that work on their arguments and locals, and each
   call has its own engine *)

\* the samplers the interleaved calls run on
SharedSamplers ==
    {InjectorMomentumGaussianFlux(<<Unit, 0, 0>>, <<2 * Unit, 2 * Unit, 2 * Unit>>, 0, 1),
     InjectorMomentumGaussianFlux(<<0, Unit, 0>>, <<Unit, Unit, Unit>>, 1, 0 - 1),
     InjectorMomentumGaussian(<<Unit, 0, 0 - Unit>>, <<Unit, Unit, Unit>>),
     InjectorMomentumRadialExpansion(2 * Unit)}

\* what one step of a call does to the call's own record: the operations of
\* the selector at "idle", then the code at the call's position
CallSteps(t, o, c) ==
    CASE c.pc = "idle" ->
            UNION {InjectorMomentum_getMomentum(t, o, pos) \cup
                   InjectorMomentum_getBulkMomentum(t, o, pos) : pos \in Positions}
      [] c.pc = "flux_entry" -> {generateGaussianFluxDist(c)}
      [] c.pc = "flux_small" ->
            {FluxSmallIteration(c, r1, r2) : r1 \in UniformDraws, r2 \in UniformDraws}
      [] c.pc = "flux_large" ->
            IF RLt(c.ku, 0) THEN {FluxLargeRedraw(c, z) : z \in NormalDraws}
            ELSE {FluxLargeTest(c, r) : r \in UniformDraws}
      [] c.pc = "flux_ret" -> IF c.op = "sample" THEN GaussianFlux_finish(o, c) ELSE {}
      [] c.pc = "juttner_loop" ->
            IF JuttnerLoopCondition(o, c)
            THEN {JuttnerIteration(o, c, r) :
                     r \in UniformDraws \X UniformDraws \X UniformDraws \X UniformDraws}
            ELSE {Juttner_finish(o, c, x1, x2, r) :
                     x1 \in UniformDraws, x2 \in UniformDraws, r \in UniformDraws}
      [] c.pc = "done" -> {Idle}
      [] OTHER -> {}

SharedInit ==
    /\ \E o \in SharedSamplers : type = o.arm /\ object = o
    /\ run = "ready"
    /\ call = Idle
    /\ other = Idle

\* variant: the local u of the kernel is one buffer shared by the calls
OtherCall_sharedLocal ==
    /\ run = "ready"
    /\ \E c \in CallSteps(type, object, other) :
        /\ other' = c
        /\ call' = [call EXCEPT !.ku = c.ku]
        /\ run' = IF c.out = "aborted" THEN "aborted" ELSE run
        /\ UNCHANGED <<type, object>>

\* a step of the second call
OtherCall ==
    /\ run = "ready"
    /\ \E c \in CallSteps(type, object, other) :
        /\ other' = c
        /\ run' = IF c.out = "aborted" THEN "aborted" ELSE run
        /\ UNCHANGED <<type, object, call>>

\* the steps of the first call, or a step of the second
SharedNext ==
    \/ getMomentum \/ getBulkMomentum
    \/ KernelEntry \/ FluxSmall \/ FluxRedraw \/ FluxTest \/ GaussianFluxReturn
    \/ Return
    \/ OtherCall

SharedSpec == SharedInit /\ [][SharedNext]_vars

----------------------------------------------------------------------------
(* generateGaussianFluxDist on its own: any central value, any spread >= 0 *)

KernelVals == {0 - Unit, 0, Unit \div 2, (3 * Unit) \div 5, Unit, 2 * Unit}

KernelInit ==
    /\ type = "none"
    /\ object = NoObject
    /\ run = "kernel"
    /\ other = Idle
    /\ \E um \in KernelVals, uth \in KernelVals \ {0 - Unit} :
         call = [Enter("kernel", "none", Zero3) EXCEPT
                    !.pc = "flux_entry", !.u_m = um, !.u_th = uth]

KernelNext == KernelEntry \/ FluxSmall \/ FluxRedraw \/ FluxTest

KernelSpec == KernelInit /\ [][KernelNext]_vars

----------------------------------------------------------------------------
(* Properties *)

\* the evaluators' values at the position of the call in flight
ThetaAtCall == Evaluate(object.temperature, call.pos)
BetaAtCall  == Evaluate(object.velocity, call.pos)
DirAtCall   == direction(object.velocity)
Relativistic == {"boltzmann", "juttner"}

\* C1 (checked under KernelSpec): called with u_th = 0, the kernel returns
\* exactly u_m whatever u_m is, enters neither rejection loop and consumes no
\* engine draw.
C1_ZeroSpreadReturnsCentral ==
    (call.pc \in {"flux_ret", "flux_small", "flux_large"} /\ call.u_th = 0) =>
        /\ call.pc = "flux_ret"
        /\ call.ku = call.u_m
        /\ call.nd = 0

C1_Witness ==
    /\ call.pc = "flux_ret" /\ call.u_th = 0
    /\ call.u_m = 0 - Unit /\ call.ku = 0 - Unit

\* C2: a GaussianFlux construction whose central momentum along the flux-normal
\* axis is negative ends in the fatal error and no call is ever made on it; with
\* that value zero or positive the construction succeeds, whatever the two
\* off-axis central values are.
C2_NegativeOnAxisIsFatal ==
    (object.arm = "gaussianflux" /\ object.m_flux_normal_axis \in 0 .. 2) =>
        IF At(object.m_u_m, object.m_flux_normal_axis) < 0
        THEN run = "aborted" /\ call = Idle
        ELSE run = "ready"

C2_Witness ==
    /\ object.arm = "gaussianflux" /\ run = "aborted"
    /\ object.m_flux_normal_axis = 2
    /\ object.m_u_m = <<Unit, Unit, 0 - Unit>>

\* C3: Boltzmann sample aborts, returning nothing and consuming no draw, exactly
\* when theta < 0 or beta <= -1 or beta >= 1 at the position; with theta >= 0
\* (0 included) and -1 < beta < 1 it returns a momentum.
C3_BoltzmannAbortsExactlyOutOfDomain ==
    (call.op = "sample" /\ call.arm = "boltzmann") =>
        IF ThetaAtCall < 0 \/ BetaAtCall <= 0 - Unit \/ BetaAtCall >= Unit
        THEN /\ call.pc = "aborted" /\ call.out = "aborted" /\ run = "aborted"
             /\ call.nd = 0 /\ call.ret = Zero3
        ELSE /\ call.pc = "done" /\ call.out = "returned" /\ run = "ready"

C3_Witness ==
    /\ call.op = "sample" /\ call.arm = "boltzmann" /\ call.out = "aborted"
    /\ ThetaAtCall < 0

\* C4: Juttner sample aborts, without entering the rejection loop and consuming
\* no draw, exactly when theta < 0.1 or beta <= -1 or beta >= 1 at the position;
\* theta = 0.1 is accepted.
C4_JuttnerAbortsExactlyOutOfDomain ==
    (call.op = "sample" /\ call.arm = "juttner") =>
        IF ThetaAtCall < Unit \div 10 \/ BetaAtCall <= 0 - Unit \/ BetaAtCall >= Unit
        THEN /\ call.pc = "aborted" /\ call.out = "aborted" /\ run = "aborted"
             /\ call.nd = 0 /\ call.ret = Zero3
        ELSE /\ call.pc \in {"juttner_loop", "done"} /\ run = "ready"
             /\ call.pc = "done" => call.out = "returned"

C4_Witness ==
    /\ call.op = "sample" /\ call.arm = "juttner" /\ call.out = "aborted"
    /\ ThetaAtCall = Unit \div 20
    /\ BetaAtCall > 0 - Unit /\ BetaAtCall < Unit

\* C5: getBulkMomentum of a Boltzmann or Juttner sampler at a position where
\* beta <= -1 or beta >= 1 ends in the fatal abort and returns no momentum.
C5_MeanAbortsOutOfRange ==
    (/\ call.op = "mean" /\ call.arm \in Relativistic
     /\ (BetaAtCall <= 0 - Unit \/ BetaAtCall >= Unit)) =>
        call.out = "aborted"

\* C6: in Boltzmann and Juttner sample with beta = 0 the flip never negates the
\* boost-axis component and the boost returns it unchanged: the returned
\* boost-axis component equals its local-frame value, for every sample.
C6_ZeroBetaLeavesBoostAxis ==
    (/\ call.op = "sample" /\ call.arm \in Relativistic
     /\ call.pc = "done" /\ call.beta = 0) =>
        /\ ~call.flip
        /\ At(call.ret, DirAtCall) = At(call.u, DirAtCall)

\* C7: on every axis where min = max, sample and mean of a Uniform sampler both
\* return that value, for every engine draw.
C7_UniformZeroWidth ==
    (call.arm = "uniform" /\ call.pc = "done") =>
        \A i \in 1 .. 3 :
            object.m_u_min[i] = object.m_u_max[i] => call.ret[i] = object.m_u_min[i]

C7_Witness ==
    /\ call.arm = "uniform" /\ call.op = "sample" /\ call.pc = "done"
    /\ object.m_u_min = <<Unit, 2 * Unit, 3 * Unit>>
    /\ object.m_u_max = <<Unit, 2 * Unit, 3 * Unit>>
    /\ call.ret = <<Unit, 2 * Unit, 3 * Unit>>

\* C8: sample and mean of a RadialExpansion sampler both return
\* (u_over_r*x, u_over_r*y, u_over_r*z), and no engine draw is consumed.
C8_RadialExpansionScalesPosition ==
    (call.arm = "radial_expansion" /\ call.pc # "idle") =>
        /\ call.pc = "done" /\ call.out = "returned" /\ call.nd = 0
        /\ \A i \in 1 .. 3 : call.ret[i] * Unit = call.pos[i] * object.u_over_r

C8_Witness ==
    /\ call.arm = "radial_expansion" /\ call.op = "sample" /\ call.pc = "done"
    /\ object.u_over_r = 2 * Unit
    /\ call.pos = <<3 * Unit, 0, 4 * Unit>>
    /\ call.ret = <<6 * Unit, 0, 8 * Unit>>

\* C9: once the selector is built, its tag is the kind of the union member that
\* was constructed, every sample or mean call runs that member's operation and
\* no other, and the unknown-type branch is never taken.
C9_TagMatchesArm ==
    /\ run # "config" => type \in Types /\ type = object.arm
    /\ call.pc # "idle" =>
        /\ call.arm # "unknown"
        /\ call.arm = type
        /\ call.arm = object.arm
    /\ call.pc \in {"flux_entry", "flux_small", "flux_large", "flux_ret"} =>
        object.arm = "gaussianflux"
    /\ call.pc = "juttner_loop" => object.arm = "juttner"

C9_Witness ==
    /\ type = "boltzmann" /\ call.op = "sample" /\ call.pc = "done"
    /\ call.arm = "boltzmann"

\* C10: with -1 < beta < 1, mean of a Boltzmann or Juttner sampler is zero on the
\* two axes other than direction() and gamma*beta on that axis, that is the u
\* with the sign of beta and u^2*(1-beta^2) = beta^2 (here to within two units
\* of the fixed-point resolution); the temperature is never evaluated.
C10_BulkIsGammaBeta ==
    (/\ call.op = "mean" /\ call.arm \in Relativistic
     /\ BetaAtCall > 0 - Unit /\ BetaAtCall < Unit) =>
        LET r == At(call.ret, DirAtCall)
            a == Abs(r)
            b == Abs(BetaAtCall)
        IN  /\ call.pc = "done" /\ call.out = "returned"
            /\ \A i \in 0 .. 2 : i # DirAtCall => At(call.ret, i) = 0
            /\ Sgn(r) = Sgn(BetaAtCall)
            /\ a <= 2 \/ (a - 2) * (a - 2) * (Unit * Unit - b * b) <= b * b * Unit * Unit
            /\ (a + 2) * (a + 2) * (Unit * Unit - b * b) >= b * b * Unit * Unit
            /\ call.theta = 0 /\ call.nd = 0

C10_Witness ==
    /\ call.op = "mean" /\ call.arm = "juttner" /\ call.pc = "done"
    /\ BetaAtCall = (4 * Unit) \div 5
    /\ At(call.ret, DirAtCall) > Unit

\* the acceptance tests, read off the state the accepting draw has left
SmallDriftAccepted(c) ==
    LET d == RSub(c.ku, c.u_th)
        reject_prefactor ==
            RDiv(RDiv(c.u_m, c.u_th), RMul(RMul(2 * Unit, c.u_th), c.u_th))
    IN  RLt(c.rnd[2], RExp(RMul(RMul(RNeg(reject_prefactor), d), d)))
LargeDriftAccepted(c) ==
    LET q == RMul(c.ku, RDiv(Unit, c.u_m))
    IN  ~RLt(c.ku, 0) /\ RLt(c.rnd[2], RMul(q, RExp(RSub(Unit, q))))

\* C11 (checked under FairSpec): every call of the flux kernel and every
\* non-aborting call of Juttner sample eventually returns when the engine
\* eventually delivers each of its draw values; a call leaves a rejection loop
\* only through a draw that satisfies the acceptance condition (no iteration
\* cap ends a loop).
C11_LoopsEventuallyReturn ==
    /\ (call.pc \in {"flux_entry", "flux_small", "flux_large", "flux_ret",
                     "juttner_loop"}) ~> (call.pc = "done" /\ call.out = "returned")
    /\ [][/\ (call.pc = "flux_small" /\ call'.pc # "flux_small") =>
                (call'.pc = "flux_ret" /\ SmallDriftAccepted(call'))
          /\ (call.pc = "flux_large" /\ call'.pc # "flux_large") =>
                (call'.pc = "flux_ret" /\ call'.ku = call.ku /\ LargeDriftAccepted(call'))
          /\ (call.pc = "juttner_loop" /\ call'.pc # "juttner_loop") =>
                (call'.pc = "done" /\ ~JuttnerLoopCondition(object, call))]_vars

\* a kernel call that left the first loop by an accepting draw after a
\* rejected round
C11_Witness ==
    /\ call.arm = "gaussianflux" /\ call.pc = "flux_ret" /\ call.nd = MaxDraws
    /\ call.u_m = Unit /\ call.u_th = 2 * Unit /\ call.rnd = <<"uniform", 0>>

\* the arms whose operations consume no draw
DrawFree(c) == c.op = "mean" \/ c.arm = "radial_expansion"

C13_BranchByThreshold ==
    (/\ call.pc \in {"flux_small", "flux_large", "flux_ret"}
     /\ call.u_th > 0 /\ call.u_m >= 0) =>
        /\ call.pc = "flux_small" =>
            /\ 10 * call.u_m < 6 * call.u_th
            /\ RGt(RSub(Unit, RDiv(call.u_m, call.u_th)), 0)
        /\ call.pc = "flux_large" =>
            /\ 10 * call.u_m >= 6 * call.u_th
            /\ call.u_m > 0
            /\ IsFinite(RDiv(Unit, call.u_m))
            /\ IsFinite(RDiv(RMul(call.u_th, call.u_th), call.u_m))
        /\ call.pc = "flux_ret" => call.rnd # <<>>
        /\ call.u_m = 0 => call.pc # "flux_large"
        /\ IsFinite(call.ku)

\* the threshold itself, u_m = 0.6*u_th, in the drift-dominated loop
C13_Witness ==
    /\ call.pc = "flux_large" /\ call.nd > 0
    /\ call.u_m = (3 * Unit) \div 5 /\ call.u_th = Unit

\* C14: every momentum that sample of a constructed GaussianFlux sampler with
\* flux-normal axis 0, 1 or 2 returns has an on-axis component <= 0 when
\* flux_direction is negative and >= 0 otherwise, in all three regimes of the
\* kernel (with u_th = 0 it is u_m with that sign, and two draws are consumed);
\* each off-axis component is one normal draw with that axis's central value
\* and spread.
C14_OnAxisSignFollowsDirection ==
    (/\ call.arm = "gaussianflux" /\ call.op = "sample" /\ call.pc = "done"
     /\ object.m_flux_normal_axis \in 0 .. 2) =>
        LET a  == object.m_flux_normal_axis
            ua == At(call.ret, a)
        IN  /\ IsFinite(ua)
            /\ IF object.m_flux_direction < 0 THEN ua <= 0 ELSE ua >= 0
            /\ call.u_th = 0 =>
                /\ ua = (IF object.m_flux_direction < 0 THEN 0 - call.u_m ELSE call.u_m)
                /\ call.nd = 2
            /\ call.u_th # 0 => call.nd >= 4
            /\ \A i \in 0 .. 2 : i # a =>
                \E z \in NormalDraws :
                    At(call.ret, i) = At(object.m_u_m, i) + (At(object.m_u_th, i) * z) \div Unit

\* a drift-dominated sample against the axis
C14_Witness ==
    /\ call.arm = "gaussianflux" /\ call.op = "sample" /\ call.pc = "done"
    /\ object.m_flux_normal_axis = 1 /\ object.m_flux_direction < 0
    /\ call.u_m = Unit /\ call.u_th = Unit
    /\ call.ret[2] < 0 /\ call.ret[1] # object.m_u_m[1]

\* C15: in Boltzmann and Juttner sample, for each boost direction dir, the
\* flip and the Lorentz boost change the component on axis dir only: the
\* components on axes (dir+1) mod 3 and (dir+2) mod 3 of the returned vector
\* are the values of the local-frame sample, and the component on dir is the
\* boost of the (possibly negated) local-frame value with the gamma computed
\* before the flip (for Boltzmann, sqrt(1 + |u|^2) of the unflipped sample).
C15_OnlyBoostAxisChanges ==
    (call.op = "sample" /\ call.arm \in Relativistic /\ call.pc = "done") =>
        LET d  == DirAtCall
            ud == IF call.flip THEN RNeg(At(call.u, d)) ELSE At(call.u, d)
        IN  /\ At(call.ret, (d + 1) % 3) = At(call.u, (d + 1) % 3)
            /\ At(call.ret, (d + 2) % 3) = At(call.u, (d + 2) % 3)
            /\ At(call.ret, d) = LorentzTransform(call.beta, ud, call.gamma)
            /\ call.flip = FlipCondition(call.beta, At(call.u, d), call.gamma, call.x1)
            /\ call.arm = "boltzmann" =>
                call.gamma = RSqrt(RAdd(RAdd(RAdd(Unit, RMul(call.u[1], call.u[1])),
                                             RMul(call.u[2], call.u[2])),
                                        RMul(call.u[3], call.u[3])))

\* a flipped and boosted Boltzmann sample along y with both other components set
C15_Witness ==
    /\ call.op = "sample" /\ call.arm = "boltzmann" /\ call.pc = "done"
    /\ DirAtCall = 1 /\ call.flip /\ call.beta # 0
    /\ call.u[1] # 0 /\ call.u[3] # 0 /\ call.u[1] # call.u[3]
    /\ call.ret[2] # call.u[2]

\* C16: in every non-aborting call of Juttner sample the loop is entered with
\* u[dir] = 0, gamma = 0, x1 = 0, which satisfy the loop condition, so the body
\* runs at least once: when the loop is left at least four uniform draws have
\* been consumed and gamma is sqrt(1 + u[dir]^2) >= 1 of the accepted speed;
\* the flip and the boost run with that gamma, never with 0, so the flip
\* condition does not divide by zero.
C16_JuttnerLoopRunsOnce ==
    (call.op = "sample" /\ call.arm = "juttner") =>
        /\ (call.pc = "juttner_loop" /\ call.nd = 0) =>
            /\ At(call.u, DirAtCall) = 0 /\ call.gamma = 0 /\ call.x1 = 0
            /\ JuttnerLoopCondition(object, call)
        /\ (call.pc = "juttner_loop" /\ ~JuttnerLoopCondition(object, call)) =>
            /\ call.nd >= 4
            /\ call.gamma =
                 RSqrt(RAdd(Unit, RMul(At(call.u, DirAtCall), At(call.u, DirAtCall))))
            /\ RGe(call.gamma, Unit)
        /\ call.pc = "done" =>
            /\ call.nd >= 4
            /\ RGe(call.gamma, Unit)
            /\ call.gamma # 0

\* a returned sample whose accepted speed is finite and not zero
C16_Witness ==
    /\ call.op = "sample" /\ call.arm = "juttner" /\ call.pc = "done"
    /\ IsFinite(call.gamma) /\ call.gamma > Unit /\ call.beta # 0
    /\ IsFinite(call.ret[1]) /\ IsFinite(call.ret[2]) /\ IsFinite(call.ret[3])

====
